---- MODULE Spec2Model ----
(***************************************************************************)
(* Model of package internal/crypto of stecatnography: the random salt and *)
(* IV generators, the PBKDF2 key derivation and the AES encrypt/decrypt    *)
(* calls.  Byte slices are sequences over 0..255.  A call's outcome is a   *)
(* record: the returned slice, whether that slice is nil, the returned     *)
(* error, and whether the call ended in a runtime panic instead.           *)
(*                                                                         *)
(* The library primitives are abstracted: SHA-256/HMAC by a keyed mixing   *)
(* function over a small modulus, the AES block cipher by a keyed          *)
(* permutation of 16-byte blocks.  What the package's code decides is kept *)
(* as it is: which key lengths the cipher constructor accepts, that only   *)
(* the first block of the buffer is transformed, that the iv parameter is  *)
(* never read, which arguments pbkdf2.Key receives.  pbkdf2.Key is         *)
(* modelled in the runtime's default mode (not GODEBUG=fips140=only).      *)
(***************************************************************************)
EXTENDS Integers, Sequences, FiniteSets, TLC

VARIABLES call, prevDerive

vars == <<call, prevDerive>>

(* ---------------- bounds of the model ---------------- *)

\* how many distinct outputs the random source can produce
NumRandom == 2
\* the longest data buffers have MaxBlocks cipher blocks
MaxBlocks == 2

(* ---------------- program constants ---------------- *)

BlockSize == 16
SaltSize == 32
KeySize == 32
Iterations == 100000

\* sha256.Size, the output length of the hash pbkdf2.Key is given
HashSize == 32
\* modulus of the mixing function standing for the hash
HashModulus == 32749

(* ---------------- byte helpers ---------------- *)

Zeros(n) == [i \in 1..n |-> 0]

Pattern(n, a, b) == [i \in 1..n |-> (a * i + b) % 256]

Exp2(n) == IF n = 0 THEN 1 ELSE IF n = 1 THEN 2 ELSE IF n = 2 THEN 4
           ELSE IF n = 3 THEN 8 ELSE IF n = 4 THEN 16 ELSE IF n = 5 THEN 32
           ELSE IF n = 6 THEN 64 ELSE 128

\* the byte b with bit number bit inverted
FlipByte(b, bit) ==
    IF (b \div Exp2(bit)) % 2 = 1 THEN b - Exp2(bit) ELSE b + Exp2(bit)

\* the slice s with one bit of its byte at index idx inverted
FlipBit(s, idx, bit) ==
    [i \in 1..Len(s) |-> IF i = idx THEN FlipByte(s[i], bit) ELSE s[i]]

(* ---------------- outcomes ---------------- *)

Ok(bytes) == [out |-> bytes, isNil |-> FALSE, err |-> "nil", panic |-> FALSE]

Fail(e) == [out |-> <<>>, isNil |-> TRUE, err |-> e, panic |-> FALSE]

Panic == [out |-> <<>>, isNil |-> TRUE, err |-> "nil", panic |-> TRUE]

(* ---------------- crypto/rand ---------------- *)

\* rand.Read(b): fills the whole of b and never returns an error; r is the
\* draw of the operating system's generator
RandRead(r, n) == [i \in 1..n |-> (r * 83 + i * 29 + 1) % 256]

(* ---------------- crypto/aes ---------------- *)

\* aes.NewCipher: AES-128, AES-192 and AES-256 keys are accepted
NewCipher(key) ==
    IF Len(key) \in {16, 24, 32} THEN "nil" ELSE "KeySizeError"

RoundKey(key, i) ==
    (key[((i - 1) % Len(key)) + 1] + 3 * key[Len(key) - ((i - 1) % Len(key))]
        + 5 * Len(key) + i) % 256

\* the block cipher as a keyed permutation of one 16-byte block
EncryptBlock(key, src) ==
    [i \in 1..BlockSize |-> (src[(i % BlockSize) + 1] + RoundKey(key, i)) % 256]

DecryptBlock(key, src) ==
    [j \in 1..BlockSize |->
        LET i == ((j + BlockSize - 2) % BlockSize) + 1
        IN  (src[i] + 256 - RoundKey(key, i)) % 256]

\* cipher.Block.Encrypt(dst, src): panics unless both hold a full block,
\* then writes the encryption of src[:BlockSize] to dst[:BlockSize]
BlockEncrypt(key, dst, src) ==
    IF Len(src) < BlockSize \/ Len(dst) < BlockSize
    THEN Panic
    ELSE Ok(EncryptBlock(key, SubSeq(src, 1, BlockSize))
                \o SubSeq(dst, BlockSize + 1, Len(dst)))

BlockDecrypt(key, dst, src) ==
    IF Len(src) < BlockSize \/ Len(dst) < BlockSize
    THEN Panic
    ELSE Ok(DecryptBlock(key, SubSeq(src, 1, BlockSize))
                \o SubSeq(dst, BlockSize + 1, Len(dst)))

(* ---------------- aes.go ---------------- *)

GenerateIV(r) == Ok(RandRead(r, BlockSize))

EncryptAES256(data, key, iv) ==
    IF NewCipher(key) # "nil"
    THEN Fail(NewCipher(key))
    ELSE BlockEncrypt(key, Zeros(Len(data)), data)

DecryptAES256(encryptedData, key, iv) ==
    IF NewCipher(key) # "nil"
    THEN Fail(NewCipher(key))
    ELSE BlockDecrypt(key, Zeros(Len(encryptedData)), encryptedData)

(* ---------------- crypto/pbkdf2 ---------------- *)

\* the contribution of the bytes s[lo..hi] to the hash state
RECURSIVE Compress(_, _, _)
Compress(s, lo, hi) ==
    IF lo > hi THEN 0
    ELSE IF lo = hi
         THEN ((s[lo] + 1) * ((lo * lo * 37 + lo * 11 + 1) % HashModulus)) % HashModulus
         ELSE (Compress(s, lo, (lo + hi) \div 2)
                + Compress(s, ((lo + hi) \div 2) + 1, hi)) % HashModulus

\* the hash state after writing the bytes s to state h
Absorb(s, h) == (h * 31 + 17 * Len(s) + Compress(s, 1, Len(s))) % HashModulus

\* hmac.New(h, password): the keyed state every PRF call starts from
HmacKey(password) == Absorb(password, 7)

\* the multiplier by which one keyed PRF step maps U(n-1) to U(n)
HmacStep(password) == 2 + ((HmacKey(password) * 13 + 5) % (HashModulus - 2))

\* <<a^n, 1 + a + ... + a^(n-1)>> modulo HashModulus
RECURSIVE GeomPow(_, _)
GeomPow(a, n) ==
    IF n = 0 THEN <<1, 0>>
    ELSE IF n % 2 = 0
         THEN LET h == GeomPow(a, n \div 2)
              IN  <<(h[1] * h[1]) % HashModulus,
                    (h[2] * ((1 + h[1]) % HashModulus)) % HashModulus>>
         ELSE LET p == GeomPow(a, n - 1)
              IN  <<(p[1] * a) % HashModulus, (1 + a * p[2]) % HashModulus>>

\* T(block): U(1) = PRF(password, salt || INT(block)), U(n) = PRF(password,
\* U(n-1)), T = U(1) combined with U(2) .. U(iter)
BlockT(password, salt, iter, block) ==
    LET U1 == Absorb(salt \o <<0, 0, 0, block>>, HmacKey(password))
    IN  (U1 * GeomPow(HmacStep(password), iter)[2]) % HashModulus

\* the HashSize bytes of the digest state t
Digest(t) == [x \in 1..HashSize |-> ((t \div ((x % 8) + 1)) + x * t + x) % 256]

\* T(block) || T(block + 1) || ... || T(numBlocks)
RECURSIVE DerivedBlocks(_, _, _, _, _)
DerivedBlocks(password, salt, iter, block, numBlocks) ==
    IF block > numBlocks THEN <<>>
    ELSE Digest(BlockT(password, salt, iter, block))
            \o DerivedBlocks(password, salt, iter, block + 1, numBlocks)

\* pbkdf2.Key(sha256.New, password, salt, iter, keyLength)
PBKDF2Key(password, salt, iter, keyLength) ==
    IF keyLength <= 0
    THEN Fail("keyLength must be larger than 0")
    ELSE Ok(SubSeq(DerivedBlocks(password, salt, iter, 1,
                                 (keyLength + HashSize - 1) \div HashSize),
                   1, keyLength))

(* ---------------- pbkdf2.go ---------------- *)

\* GenerateSalt sized with the cipher's block size, as GenerateIV is
GenerateSalt_BlockSized(r) == Ok(RandRead(r, BlockSize))

GenerateSalt(r) == Ok(RandRead(r, SaltSize))

\* DeriveKey checking the salt's length against SaltSize first
DeriveKey_SaltChecked(password, salt) ==
    IF Len(salt) # SaltSize
    THEN Fail("InvalidParameterError")
    ELSE PBKDF2Key(password, salt, Iterations, KeySize)

\* DeriveKey with a digit of the iteration count lost
DeriveKey_FewIterations(password, salt) ==
    PBKDF2Key(password, salt, 10000, KeySize)

\* DeriveKey deriving from the salt generated last, when there is one, and
\* not from its argument
DeriveKey_LastSalt(password, salt) ==
    PBKDF2Key(password, IF call.op = "GenerateSalt" THEN call.out ELSE salt,
              Iterations, KeySize)

DeriveKey(password, salt) == PBKDF2Key(password, salt, Iterations, KeySize)

(* ---------------- the callers' inputs ---------------- *)

KnownPassword == <<107, 110, 111, 119, 110, 112, 97, 115, 115, 119, 111, 114, 100>>

TestPassword == <<116, 101, 115, 116, 112, 97, 115, 115, 119, 111, 114, 100, 49, 50, 51>>

Passwords == {<<>>, KnownPassword, TestPassword}

KnownSalt == <<115, 97, 108, 116>>

TestSalt == <<116, 101, 115, 116, 115, 97, 108, 116, 49, 50, 51, 52, 53, 54, 55, 56,
              57, 48, 49, 50, 51, 52, 53, 54, 55, 56, 57, 48, 49, 50, 51>>

AnotherSalt == <<97, 110, 111, 116, 104, 101, 114, 83, 97, 108, 116, 49, 50, 51, 52,
                 53, 54, 55, 56, 57, 48, 49, 50, 51, 52, 53, 54, 55, 56, 57, 48>>

Salts == {KnownSalt, TestSalt, AnotherSalt, Zeros(SaltSize)}
            \cup {GenerateSalt(r).out : r \in 1..NumRandom}

Keys == {<<>>, Pattern(16, 11, 2), Pattern(24, 13, 4), Pattern(KeySize, 17, 6),
         Pattern(KeySize + 1, 23, 10)}

IVs == {<<>>} \cup {GenerateIV(r).out : r \in 1..NumRandom}

DataLens == {0, BlockSize - 1, BlockSize, BlockSize + 1}
                \cup {b * BlockSize : b \in 2..MaxBlocks}

Datas == {Pattern(n, 7, 3) : n \in DataLens}

FlipBits == {0, 7}

\* the bytes of a ciphertext of length n in which a bit is flipped
FlipBytes(n) == {1, BlockSize, BlockSize + 1, n} \cap (1..n)

(* ---------------- the state machine ---------------- *)

NoCall ==
    [op |-> "none", password |-> <<>>, salt |-> <<>>, data |-> <<>>, key |-> <<>>,
     iv |-> <<>>, src |-> "none", plain |-> <<>>,
     out |-> <<>>, isNil |-> TRUE, err |-> "nil", panic |-> FALSE]

\* the arguments of a call; the ones its function does not have are empty
NoArgs ==
    [password |-> <<>>, salt |-> <<>>, data |-> <<>>, key |-> <<>>, iv |-> <<>>,
     src |-> "direct", plain |-> <<>>]

\* the record of a call: its arguments and its outcome res
Done(op, args, res) ==
    [op |-> op, password |-> args.password, salt |-> args.salt, data |-> args.data,
     key |-> args.key, iv |-> args.iv, src |-> args.src, plain |-> args.plain,
     out |-> res.out, isNil |-> res.isNil, err |-> res.err, panic |-> res.panic]

\* the last DeriveKey call made before the call that is being made
LastDerive == IF call.op = "DeriveKey" THEN call ELSE prevDerive

Init == call = NoCall /\ prevDerive = NoCall

CallGenerateSalt ==
    \E r \in 1..NumRandom :
        /\ call' = Done("GenerateSalt", NoArgs, GenerateSalt(r))
        /\ prevDerive' = LastDerive

CallGenerateIV ==
    \E r \in 1..NumRandom :
        /\ call' = Done("GenerateIV", NoArgs, GenerateIV(r))
        /\ prevDerive' = LastDerive

CallDeriveKey ==
    \E p \in Passwords, s \in Salts :
        /\ call' = Done("DeriveKey", [NoArgs EXCEPT !.password = p, !.salt = s],
                        DeriveKey(p, s))
        /\ prevDerive' = LastDerive

CallEncrypt ==
    \E m \in Datas, k \in Keys, v \in IVs :
        /\ call' = Done("EncryptAES256",
                        [NoArgs EXCEPT !.data = m, !.key = k, !.iv = v],
                        EncryptAES256(m, k, v))
        /\ prevDerive' = LastDerive

\* DecryptAES256 on bytes the caller read from somewhere
CallDecrypt ==
    \E c \in Datas, k \in Keys, v \in IVs :
        /\ call' = Done("DecryptAES256",
                        [NoArgs EXCEPT !.data = c, !.key = k, !.iv = v],
                        DecryptAES256(c, k, v))
        /\ prevDerive' = LastDerive

\* DecryptAES256 on what EncryptAES256 just returned, same key and iv
CallDecryptEncrypted ==
    /\ call.op = "EncryptAES256" /\ call.err = "nil" /\ ~call.panic
    /\ call' = Done("DecryptAES256",
                    [NoArgs EXCEPT !.data = call.out, !.key = call.key,
                                   !.iv = call.iv, !.src = "roundtrip",
                                   !.plain = call.data],
                    DecryptAES256(call.out, call.key, call.iv))
    /\ prevDerive' = LastDerive

\* the same, after one bit of the ciphertext was flipped
CallDecryptTampered ==
    /\ call.op = "EncryptAES256" /\ call.err = "nil" /\ ~call.panic
    /\ \E idx \in FlipBytes(Len(call.out)), bit \in FlipBits :
        /\ call' = Done("DecryptAES256",
                        [NoArgs EXCEPT !.data = FlipBit(call.out, idx, bit),
                                       !.key = call.key, !.iv = call.iv,
                                       !.src = "tampered", !.plain = call.data],
                        DecryptAES256(FlipBit(call.out, idx, bit), call.key, call.iv))
        /\ prevDerive' = LastDerive

Next ==
    \/ CallGenerateSalt
    \/ CallGenerateIV
    \/ CallDeriveKey
    \/ CallEncrypt
    \/ CallDecrypt
    \/ CallDecryptEncrypted
    \/ CallDecryptTampered

Spec == Init /\ [][Next]_vars

\* the calls a caller makes with inputs of its own
NextDirect ==
    \/ CallGenerateSalt
    \/ CallGenerateIV
    \/ CallDeriveKey
    \/ CallEncrypt
    \/ CallDecrypt

SpecDirect == Init /\ [][NextDirect]_vars

(* ---------------- properties ---------------- *)

IsCipherCall == call.op \in {"EncryptAES256", "DecryptAES256"}

\* C1: round trip.  Decrypting, with the same 32-byte key and 16-byte iv, what
\* EncryptAES256 returned for a plaintext m returns m byte for byte and no
\* error, whatever the length of m.
C1_RoundTrip ==
    (/\ call.op = "DecryptAES256" /\ call.src = "roundtrip"
     /\ Len(call.key) = KeySize /\ Len(call.iv) = BlockSize)
        => (call.err = "nil" /\ ~call.panic /\ ~call.isNil /\ call.out = call.plain)

\* C2: tamper detection.  Decrypting, with the same 32-byte key and 16-byte
\* iv, a ciphertext of which one bit was flipped fails with an integrity error
\* and returns no bytes.
C2_TamperDetected ==
    (/\ call.op = "DecryptAES256" /\ call.src = "tampered"
     /\ Len(call.key) = KeySize /\ Len(call.iv) = BlockSize)
        => (call.err = "IntegrityError" /\ call.isNil /\ ~call.panic)

\* C3: the iv is an input of the encryption.  Under a 32-byte key, the
\* ciphertext returned for a plaintext and a 16-byte iv differs from the
\* ciphertext of the same plaintext and key under every other 16-byte iv.
C3_IVChangesCiphertext ==
    (/\ call.op = "EncryptAES256" /\ call.err = "nil" /\ ~call.panic
     /\ Len(call.key) = KeySize /\ Len(call.iv) = BlockSize)
        => \A v2 \in IVs :
              (Len(v2) = BlockSize /\ v2 # call.iv)
                  => EncryptAES256(call.data, call.key, v2).out # call.out

\* C4: key size enforcement.  EncryptAES256 and DecryptAES256 return an error
\* and no bytes for every key whose length is not 32.  (Stated for data of at
\* least one block; what shorter data does is C10.)
C4_KeySizeEnforced ==
    (IsCipherCall /\ Len(call.key) # 32 /\ Len(call.data) >= BlockSize)
        => (call.err # "nil" /\ call.isNil /\ ~call.panic)

\* C5: salt length rejection.  DeriveKey fails with an invalid-parameter error
\* and returns no key for every salt whose length is not SaltSize.
C5_SaltLengthRejected ==
    (call.op = "DeriveKey" /\ Len(call.salt) # 32)
        => (call.err = "InvalidParameterError" /\ call.isNil)

\* C5, amended: DeriveKey does not compare the salt's length with SaltSize; for
\* a salt of any other length it returns a nil error and a 32-byte key.
C5_SaltLengthAccepted ==
    (call.op = "DeriveKey" /\ Len(call.salt) # 32)
        => (call.err = "nil" /\ ~call.isNil /\ ~call.panic /\ Len(call.out) = 32)

C5_Witness ==
    /\ call.op = "DeriveKey" /\ call.salt = KnownSalt
    /\ call.err = "nil" /\ Len(call.out) = 32

\* C6: known answer.  For every password and salt, the 4-byte salt "salt" and
\* the 31-byte salts included, DeriveKey returns a nil error and the key
\* PBKDF2-HMAC-SHA256(password, salt, 100000 iterations, 32 bytes).
C6_ReferenceEquality ==
    call.op = "DeriveKey"
        => /\ call.err = "nil" /\ ~call.isNil /\ ~call.panic
           /\ call.out = PBKDF2Key(call.password, call.salt, 100000, 32).out

C6_Witness ==
    /\ call.op = "DeriveKey" /\ call.password = KnownPassword
    /\ call.salt = KnownSalt /\ call.err = "nil"
    /\ call.out = PBKDF2Key(KnownPassword, KnownSalt, 100000, 32).out

\* C7: determinism.  A DeriveKey call returns what the last earlier DeriveKey
\* call with the same password and salt returned, whatever calls were made in
\* between.
C7_Deterministic ==
    (/\ call.op = "DeriveKey" /\ prevDerive.op = "DeriveKey"
     /\ call.password = prevDerive.password /\ call.salt = prevDerive.salt)
        => (call.out = prevDerive.out /\ call.err = prevDerive.err
            /\ call.isNil = prevDerive.isNil)

C7_Witness ==
    /\ call.op = "DeriveKey" /\ prevDerive.op = "DeriveKey"
    /\ call.password = TestPassword /\ prevDerive.password = TestPassword
    /\ call.salt = TestSalt /\ prevDerive.salt = TestSalt
    /\ call.err = "nil" /\ call.out = prevDerive.out

\* C8: fixed output sizes.  Every successful GenerateSalt returns 32 bytes and
\* every successful DeriveKey returns 32 bytes, for the empty password and the
\* all-zero salt too.
C8_FixedSizes ==
    (call.op \in {"GenerateSalt", "DeriveKey"} /\ call.err = "nil")
        => (~call.isNil /\ Len(call.out) = 32)

C8_Witness ==
    /\ call.op = "GenerateSalt" /\ call.err = "nil" /\ Len(call.out) = 32
    /\ prevDerive.op = "DeriveKey" /\ prevDerive.password = <<>>
    /\ prevDerive.salt = Zeros(SaltSize)
    /\ prevDerive.err = "nil" /\ Len(prevDerive.out) = 32

\* C9: iv size enforcement.  EncryptAES256 and DecryptAES256 return an error
\* and no bytes for every iv whose length is not 16, the empty iv included.
\* (Stated for data of at least one block; what shorter data does is C10.)
C9_IVSizeEnforced ==
    (IsCipherCall /\ Len(call.iv) # 16 /\ Len(call.data) >= BlockSize)
        => (call.err # "nil" /\ call.isNil /\ ~call.panic)

\* C10: no abort.  Under a 32-byte key, EncryptAES256 and DecryptAES256 return
\* for data of every length; neither ends in a runtime panic.
C10_NoPanic ==
    (IsCipherCall /\ Len(call.key) = 32) => ~call.panic

====
